---- MODULE Spec2Model ----
(***************************************************************************)
(* Text fitting and pagination of worship_slides.                          *)
(*                                                                         *)
(*   slide_builder.py        lyric wrapper, vertical packer, rebalancer    *)
(*   verse_slide_builder.py  scripture clause splitter, packer and repairs *)
(*                                                                         *)
(* Text is modelled as TLA+ strings, split into words character by         *)
(* character as str.split() does.  Lengths are pixels; a height that the   *)
(* code multiplies by a fraction (0.98, lyric_gap_em) is kept in           *)
(* hundredths of a pixel so that every comparison is exact.                *)
(***************************************************************************)
EXTENDS Integers, Sequences, FiniteSets, TLC

VARIABLES
    pc,              \* position of the run: which function has returned
    font,            \* the measuring font (advance widths)
    lyric_lines,     \* input of _pack_lyrics_into_slides_by_height
    box_width_px,    \* geometry of the lyric text box
    box_height_px,
    line_height_px,
    lyric_gap_em,    \* inter-unit gap, in hundredths of a line height
    dbg,             \* the debug recorder handed to the wrapper and the packer
    packed,          \* the packer's pages, each with how it was produced (hard)
    before,          \* the pages handed to the last rebalancer call
    out,             \* the pages it returned: <<[lines |-> .., flags |-> ..], ...>>
    line,            \* input of _wrap_one_lyric_line_by_width
    wrapped,         \* its display lines
    caller,          \* who calls split_by_lines: build_verse_deck, or directly
    verse_text,      \* the verse as given
    max_line_chars,  \* the arguments of split_by_lines
    max_lines,
    text,
    clauses,         \* its clauses, as the punctuation splits the text
    units,           \* its clause units
    slide_units,     \* its per-slide unit lists
    slides,          \* its rendered slides
    jx,              \* the slide its tail loop is at (j + 1)
    ref,             \* the reference build_verse_deck renders the verse under
    blocks,          \* the slide texts build_verse_deck hands to the renderer
    template_shape,  \* the placeholder _build_measure_font reads
    measured         \* what it returns, or the error it raises

geometry == <<font, box_width_px, box_height_px, line_height_px, lyric_gap_em, dbg>>
lyric_vars == <<lyric_lines, packed, before, out>>
wrap_vars == <<line, wrapped>>
fit == <<caller, verse_text, max_line_chars, max_lines>>
verse_vars == <<text, clauses, units, slide_units, slides, jx, ref, blocks>>
shape_vars == <<template_shape, measured>>
beside_verse == <<shape_vars, geometry, lyric_vars, wrap_vars>>

vars == <<pc, geometry, lyric_vars, wrap_vars, fit, verse_vars, shape_vars>>

-----------------------------------------------------------------------------
(* Bounds of the model *)

MaxLyrics == 5
MaxRecordedLyrics == 2
MaxClauses == 4

-----------------------------------------------------------------------------
(* Program constants *)

WIDTH_SAFETY == 97
HEIGHT_SAFETY == 98

\* debug_tools.DebugSettings(): the fields the pagination reads.  A recorder
\* is <<settings>>, no recorder (dbg=None) is <<>>.
DebugSettings == [enabled |-> FALSE, width_safety |-> 97, height_safety |-> 98]

\* DebugSettings.from_env(): "FORCE DEBUG ON"
from_env == [DebugSettings EXCEPT !.enabled = TRUE]

NoRecorder == <<>>
DebugRecorder(settings) == <<settings>>

\* dbg and dbg.settings.enabled
Recording(d) == d # <<>> /\ d[1].enabled

\* a recorder that widens the limits whenever it is attached
width_safety_attached(d) == IF d # <<>> THEN 100 ELSE WIDTH_SAFETY

\* dbg.settings.width_safety if (dbg and dbg.settings.enabled) else 0.97
width_safety(d) == IF Recording(d) THEN d[1].width_safety ELSE WIDTH_SAFETY

\* dbg.settings.height_safety if (dbg and dbg.settings.enabled) else 0.98
height_safety(d) == IF Recording(d) THEN d[1].height_safety ELSE HEIGHT_SAFETY
\* min_lyrics_per_slide: int = 2
MIN_LYRICS_PER_SLIDE_three == 2 + 1
MIN_LYRICS_PER_SLIDE == 2

\* min_lyrics_left_on_prev: int = 2
MIN_LYRICS_LEFT_ON_PREV_four == 2 + 2
MIN_LYRICS_LEFT_ON_PREV == 2

_SMALL_WORDS ==
    {"and", "or", "but", "the", "a", "an", "of", "to", "in", "on", "at", "for",
     "by", "with", "that", "this", "is", "be", "as", "if", "so", "yet", "nor",
     "from"}

-----------------------------------------------------------------------------
(* Strings *)

Max(a, b) == IF a >= b THEN a ELSE b
Min(a, b) == IF a <= b THEN a ELSE b

Chr(s, i) == SubSeq(s, i, i)

\* str.isspace for one character ("\n" separates the lines of a block)
IsSpace(c) == c \in {" ", "\n", "\t"}

RECURSIVE SplitFrom(_, _, _, _)
SplitFrom(s, i, cur, acc) ==
    IF i > Len(s)
    THEN IF cur = "" THEN acc ELSE Append(acc, cur)
    ELSE IF IsSpace(Chr(s, i))
         THEN SplitFrom(s, i + 1, "", IF cur = "" THEN acc ELSE Append(acc, cur))
         ELSE SplitFrom(s, i + 1, cur \o Chr(s, i), acc)

\* str.split(): the whitespace-separated words
Split(s) == SplitFrom(s, 1, "", <<>>)

RECURSIVE Join(_)
\* " ".join(words)
Join(words) ==
    IF words = <<>> THEN ""
    ELSE IF Len(words) = 1 THEN words[1]
    ELSE words[1] \o " " \o Join(Tail(words))

\* str.strip()
Strip(s) ==
    LET idx == {i \in 1..Len(s) : ~IsSpace(Chr(s, i))}
    IN  IF idx = {} THEN ""
        ELSE SubSeq(s, CHOOSE i \in idx : \A k \in idx : i <= k,
                       CHOOSE i \in idx : \A k \in idx : i >= k)

UpperCase == "ABCDEFGHIJKLMNOPQRSTUVWXYZ"
LowerCase == "abcdefghijklmnopqrstuvwxyz"

LowerChar(c) ==
    IF \E k \in 1..26 : Chr(UpperCase, k) = c
    THEN Chr(LowerCase, CHOOSE k \in 1..26 : Chr(UpperCase, k) = c)
    ELSE c

RECURSIVE LowerFrom(_, _)
LowerFrom(s, i) == IF i > Len(s) THEN "" ELSE LowerChar(Chr(s, i)) \o LowerFrom(s, i + 1)

\* str.lower()
Lower(s) == LowerFrom(s, 1)

RECURSIVE Concat(_)
Concat(seqs) == IF seqs = <<>> THEN <<>> ELSE seqs[1] \o Concat(Tail(seqs))

-----------------------------------------------------------------------------
(* Font metrics: a font charges `thin` pixels for the characters of         *)
(* ThinChars and `adv` pixels for every other character.                    *)

ThinChars == {"i", "l", "t", "I", ",", ".", " "}

CharWidth(f, c) == IF c \in ThinChars THEN f.thin ELSE f.adv

RECURSIVE WidthFrom(_, _, _)
WidthFrom(f, txt, i) ==
    IF i > Len(txt) THEN 0 ELSE CharWidth(f, Chr(txt, i)) + WidthFrom(f, txt, i + 1)

\* font.getlength(txt): the sum of the advance widths
_text_width_px(f, txt) == WidthFrom(f, txt, 1)

\* w <= max_w, where max_w = max_width_px * 0.97 (or the recorder's factor)
FitsWidth(f, txt, max_width_px, d) ==
    100 * _text_width_px(f, txt) <= width_safety(d) * max_width_px

-----------------------------------------------------------------------------
(* _wrap_one_lyric_line_by_width *)

\* a line closed after its first word
GreedyEnd_one(words, f, max_width_px, i, j, d) == j

RECURSIVE GreedyEnd(_, _, _, _, _, _)
\* the inner while loop: j is the index of the next word to try; the line
\* under construction is words[i..j-1]
GreedyEnd(words, f, max_width_px, i, j, d) ==
    IF j <= Len(words) /\ FitsWidth(f, Join(SubSeq(words, i, j)), max_width_px, d)
    THEN GreedyEnd(words, f, max_width_px, i, j + 1, d)
    ELSE j

\* "Avoid ending a line with tiny connector words when possible"
ConnectorEnd(words, i, j) ==
    IF j - i >= 2 /\ Lower(words[j - 1]) \in _SMALL_WORDS /\ j <= Len(words)
    THEN j - 1
    ELSE j

RECURSIVE WrapFrom(_, _, _, _, _, _)
\* the outer while loop
WrapFrom(words, f, max_width_px, i, lines, d) ==
    IF i > Len(words) THEN lines
    ELSE LET j == ConnectorEnd(words, i, GreedyEnd(words, f, max_width_px, i, i + 1, d))
         IN  WrapFrom(words, f, max_width_px, j,
                      Append(lines, Join(SubSeq(words, i, j - 1))), d)

AntiOrphan_unchecked(lines, f, max_width_px, d) ==
    IF Len(lines) >= 2 /\ Len(Split(lines[Len(lines)])) = 1
                       /\ Len(Split(lines[Len(lines) - 1])) >= 3
    THEN LET n == Len(lines)
             prev_words == Split(lines[n - 1])
         IN  [lines EXCEPT ![n - 1] = Join(SubSeq(prev_words, 1, Len(prev_words) - 1)),
                           ![n] = prev_words[Len(prev_words)] \o " " \o lines[n]]
    ELSE lines

\* "Anti-orphan: avoid 1 short word on its own last line if we can rebalance"
AntiOrphan(lines, f, max_width_px, d) ==
    IF Len(lines) < 2 THEN lines
    ELSE LET n == Len(lines)
             last_words == Split(lines[n])
             prev_words == Split(lines[n - 1])
         IN  IF Len(last_words) = 1 /\ Len(prev_words) >= 3
             THEN LET moved == prev_words[Len(prev_words)]
                      new_prev == Join(SubSeq(prev_words, 1, Len(prev_words) - 1))
                      new_last == moved \o " " \o lines[n]
                  IN  IF FitsWidth(f, new_last, max_width_px, d)
                         /\ FitsWidth(f, new_prev, max_width_px, d)
                      THEN [lines EXCEPT ![n - 1] = new_prev, ![n] = new_last]
                      ELSE lines
             ELSE lines

\* a wrapper that answers a blank line with one empty display line
_wrap_blank_as_line(ln, f, max_width_px, d) ==
    LET s == Strip(ln)
    IN  IF s = "" THEN <<"">>
        ELSE AntiOrphan(WrapFrom(Split(s), f, max_width_px, 1, <<>>, d), f, max_width_px, d)

_wrap_one_lyric_line_by_width(ln, f, max_width_px, d) ==
    LET s == Strip(ln)
    IN  IF s = "" THEN <<>>
        ELSE AntiOrphan(WrapFrom(Split(s), f, max_width_px, 1, <<>>, d), f, max_width_px, d)

-----------------------------------------------------------------------------
(* _pack_lyrics_into_slides_by_height.  Heights are in hundredths of a px. *)

\* the whole box height as the budget
Budget_tight(box_h, d) == 50 * box_h

Budget_unsafe(box_h, d) == 100 * box_h

\* box_height_px * 0.98 (or the recorder's factor)
Budget(box_h, d) == height_safety(d) * box_h

\* gap_px = max(0.0, line_height_px * lyric_gap_em)
GapPx(line_h, gap_em) == Max(0, line_h * gap_em)

\* max_lines of the hard split
HardSplitLines(box_h, line_h, d) == Max(1, Budget(box_h, d) \div (100 * Max(line_h, 1)))

RECURSIVE Chunks(_, _)
\* wrapped[i:i + max_lines] for i = 0, max_lines, ...
Chunks(ws, n) ==
    IF ws = <<>> THEN <<>>
    ELSE IF Len(ws) <= n THEN <<ws>>
    ELSE <<SubSeq(ws, 1, n)>> \o Chunks(SubSeq(ws, n + 1, Len(ws)), n)

\* flags = [True] + [False] * (len(chunk) - 1)
StartFlags(n) == [k \in 1..n |-> k = 1]

HardPage(chunk) == [lines |-> chunk, flags |-> StartFlags(Len(chunk)), hard |-> TRUE]

\* slides.append((cur_lines, cur_flags))
Flush(st) ==
    [st EXCEPT !.slides = Append(st.slides,
                     [lines |-> st.cur_lines, flags |-> st.cur_flags, hard |-> FALSE]),
               !.cur_lines = <<>>, !.cur_flags = <<>>, !.used_h = 0]

\* one iteration of the for loop, for a lyric that wrapped to ws
PackOne(st, ws, box_h, line_h, gap_em, d) ==
    IF ws = <<>> THEN st
    ELSE
    LET own_h == Len(ws) * line_h * 100
        add_gap == IF st.cur_lines # <<>> THEN GapPx(line_h, gap_em) ELSE 0
        needed_h == add_gap + own_h
        break == st.cur_lines # <<>> /\ st.used_h + needed_h > Budget(box_h, d)
        s1 == IF break THEN Flush(st) ELSE st
        gap1 == IF break THEN 0 ELSE add_gap
        needed1 == IF break THEN own_h ELSE needed_h
    IN  IF s1.cur_lines = <<>> /\ needed1 > Budget(box_h, d)
        THEN [s1 EXCEPT !.slides =
                 s1.slides \o [k \in 1..Len(Chunks(ws, HardSplitLines(box_h, line_h, d))) |->
                                  HardPage(Chunks(ws, HardSplitLines(box_h, line_h, d))[k])]]
        ELSE [s1 EXCEPT !.cur_lines = s1.cur_lines \o ws,
                        !.cur_flags = s1.cur_flags \o StartFlags(Len(ws)),
                        !.used_h = s1.used_h + gap1 + own_h]

RECURSIVE PackFrom(_, _, _, _, _, _, _, _, _)
PackFrom(lyrics, i, st, f, box_w, box_h, line_h, gap_em, d) ==
    IF i > Len(lyrics)
    THEN (IF st.cur_lines # <<>> THEN Flush(st) ELSE st).slides
    ELSE PackFrom(lyrics, i + 1,
                  PackOne(st, _wrap_one_lyric_line_by_width(lyrics[i], f, box_w, d),
                          box_h, line_h, gap_em, d),
                  f, box_w, box_h, line_h, gap_em, d)

\* the pages, each with the record of how it was produced
_pack_lyrics_into_slides_by_height(lyrics, f, box_w, box_h, line_h, gap_em, d) ==
    PackFrom(lyrics, 1,
             [slides |-> <<>>, cur_lines |-> <<>>, cur_flags |-> <<>>, used_h |-> 0],
             f, box_w, box_h, line_h, gap_em, d)

\* the (display_lines, lyric_starts) tuples the packer returns
Pages(sls) == [k \in 1..Len(sls) |-> [lines |-> sls[k].lines, flags |-> sls[k].flags]]

-----------------------------------------------------------------------------
(* _rebalance_single_lyric_slides *)

RECURSIVE GroupsFrom(_, _, _, _)
GroupsFrom(p, k, cur, groups) ==
    IF k > Len(p.lines)
    THEN IF cur.lines # <<>> THEN Append(groups, cur) ELSE groups
    ELSE IF p.flags[k] /\ cur.lines # <<>>
         THEN GroupsFrom(p, k + 1, [lines |-> <<p.lines[k]>>, flags |-> <<p.flags[k]>>],
                         Append(groups, cur))
         ELSE GroupsFrom(p, k + 1, [lines |-> Append(cur.lines, p.lines[k]),
                                    flags |-> Append(cur.flags, p.flags[k])], groups)

_split_into_lyric_groups(p) == GroupsFrom(p, 1, [lines |-> <<>>, flags |-> <<>>], <<>>)

_join_lyric_groups(groups) ==
    [lines |-> Concat([k \in 1..Len(groups) |-> groups[k].lines]),
     flags |-> Concat([k \in 1..Len(groups) |-> groups[k].flags])]

\* a move that takes the unit off the predecessor and does not put it back
RebalanceAt_losing(pages, i) ==
    LET cur_groups == _split_into_lyric_groups(pages[i])
        prev_groups == _split_into_lyric_groups(pages[i - 1])
    IN  IF Len(cur_groups) >= MIN_LYRICS_PER_SLIDE THEN pages
        ELSE IF Len(prev_groups) <= MIN_LYRICS_LEFT_ON_PREV THEN pages
        ELSE [pages EXCEPT
                 ![i - 1] = _join_lyric_groups(SubSeq(prev_groups, 1, Len(prev_groups) - 1))]

\* the body of the for loop at index i (1-based: pages i - 1 and i)
RebalanceAt(pages, i) ==
    LET cur_groups == _split_into_lyric_groups(pages[i])
        prev_groups == _split_into_lyric_groups(pages[i - 1])
    IN  IF Len(cur_groups) >= MIN_LYRICS_PER_SLIDE THEN pages
        ELSE IF Len(prev_groups) <= MIN_LYRICS_LEFT_ON_PREV THEN pages
        ELSE LET moved == prev_groups[Len(prev_groups)]
             IN  [pages EXCEPT
                     ![i - 1] = _join_lyric_groups(SubSeq(prev_groups, 1, Len(prev_groups) - 1)),
                     ![i] = _join_lyric_groups(<<moved>> \o cur_groups)]

RECURSIVE RebalanceFrom(_, _)
RebalanceFrom(pages, i) ==
    IF i > Len(pages) THEN pages ELSE RebalanceFrom(RebalanceAt(pages, i), i + 1)

_rebalance_single_lyric_slides(pages) ==
    IF Len(pages) < 2 THEN pages ELSE RebalanceFrom(pages, 2)

-----------------------------------------------------------------------------
(* verse_slide_builder.py.  From split_by_lines on, a text is its sequence  *)
(* of words, a line is a sequence of words, and a block (a slide string,    *)
(* or a unit holding '\n') is a sequence of lines.                          *)

\* stands for U+2060 WORD JOINER, which is not whitespace
_WORD_JOINER == "~"

RECURSIVE JoinWith(_, _)
JoinWith(words, sep) ==
    IF words = <<>> THEN ""
    ELSE IF Len(words) = 1 THEN words[1]
    ELSE words[1] \o sep \o JoinWith(Tail(words), sep)

\* the end of the match of \[(.+?)\] that starts at i, or 0
NextClose(t, i) ==
    LET js == {k \in (i + 2)..Len(t) : Chr(t, k) = "]"}
    IN  IF js = {} THEN 0 ELSE CHOOSE k \in js : \A m \in js : k <= m

RECURSIVE ProtectFrom(_, _)
ProtectFrom(t, i) ==
    IF i > Len(t) THEN ""
    ELSE IF Chr(t, i) = "[" /\ NextClose(t, i) # 0
         THEN "[" \o JoinWith(Split(SubSeq(t, i + 1, NextClose(t, i) - 1)), _WORD_JOINER)
                  \o "]" \o ProtectFrom(t, NextClose(t, i) + 1)
         ELSE Chr(t, i) \o ProtectFrom(t, i + 1)

protect_bracket_spans(t) == ProtectFrom(t, 1)

RECURSIVE RestoreFrom(_, _)
RestoreFrom(t, i) ==
    IF i > Len(t) THEN ""
    ELSE (IF Chr(t, i) = _WORD_JOINER THEN " " ELSE Chr(t, i)) \o RestoreFrom(t, i + 1)

restore_bracket_spaces(t) == RestoreFrom(t, 1)

\* needle in haystack
Contains(haystack, needle) ==
    \E i \in 1..(Len(haystack) - Len(needle) + 1) :
        SubSeq(haystack, i, i + Len(needle) - 1) = needle

LastChar(w) == Chr(w, Len(w))

\* str.endswith(chars) of the text with these words
EndsWithAny(words, chars) == words # <<>> /\ LastChar(words[Len(words)]) \in chars

RECURSIVE SumLen(_)
SumLen(words) == IF words = <<>> THEN 0 ELSE Len(words[1]) + SumLen(Tail(words))

\* len(" ".join(words))
LineChars(words) == IF words = <<>> THEN 0 ELSE SumLen(words) + Len(words) - 1

RECURSIVE SumLineChars(_)
SumLineChars(block) ==
    IF block = <<>> THEN 0 ELSE LineChars(block[1]) + SumLineChars(Tail(block))

\* len("\n".join(lines))
BlockChars(block) == IF block = <<>> THEN 0 ELSE SumLineChars(block) + Len(block) - 1

\* block.replace("\n", " ").split()
WordsOf(block) == Concat(block)

\* " ".join(units).replace("\n", " ").split()
FlattenUnits(us) == Concat([k \in 1..Len(us) |-> WordsOf(us[k])])

RECURSIVE WrapWords(_, _, _, _, _)
WrapWords(words, i, cur, lines, mlc) ==
    IF i > Len(words)
    THEN IF cur # <<>> THEN Append(lines, cur) ELSE lines
    ELSE IF LineChars(Append(cur, words[i])) <= mlc
         THEN WrapWords(words, i + 1, Append(cur, words[i]), lines, mlc)
         ELSE WrapWords(words, i + 1, <<words[i]>>,
                        IF cur # <<>> THEN Append(lines, cur) ELSE lines, mlc)

wrap_text_to_lines(words, mlc) == WrapWords(words, 1, <<>>, <<>>, mlc)

_count_lines(block) == Len(block)

_fits_plain_any(words, mlc, ml) == TRUE

_fits_plain(words, mlc, ml) == Len(wrap_text_to_lines(words, mlc)) <= ml

_fits_wrapped(block, ml) == Len(block) <= ml

\* "\n" in unit
IsFixed(unit) == Len(unit) >= 2

\* bool(su) and ("\n" in su[0])
FirstFixed(us) == us # <<>> /\ IsFixed(us[1])

_render(us, mlc) ==
    IF Len(us) = 1 /\ IsFixed(us[1]) THEN us[1]
    ELSE wrap_text_to_lines(FlattenUnits(us), mlc)

RenderAll(su, mlc) == [k \in 1..Len(su) |-> _render(su[k], mlc)]

\* int(max_line_chars * 2.5)
TinyChars(mlc) == Max(85, (5 * mlc) \div 2)

_is_tiny(block, mlc) ==
    IF block = <<>> THEN TRUE
    ELSE IF Len(block) <= 2 THEN BlockChars(block) < TinyChars(mlc)
    ELSE FALSE

\* a boundary after every word of one or two characters
IsBoundary_short(words, k) == Len(words[k]) <= 2

\* --- 1) units at punctuation boundaries: [.!?](?=\s|$)|[;:](?=\s|$)|,(?=\s)
IsBoundary(words, k) ==
    \/ LastChar(words[k]) \in {".", "!", "?", ";", ":"}
    \/ LastChar(words[k]) = "," /\ k < Len(words)

RECURSIVE ClausesFrom(_, _, _, _)
ClausesFrom(words, k, cur, acc) ==
    IF k > Len(words)
    THEN IF cur # <<>> THEN Append(acc, cur) ELSE acc
    ELSE IF IsBoundary(words, k)
         THEN ClausesFrom(words, k + 1, <<>>, Append(acc, Append(cur, words[k])))
         ELSE ClausesFrom(words, k + 1, Append(cur, words[k]), acc)

ClauseSplit(words) == ClausesFrom(words, 1, <<>>, <<>>)

AlnumChars ==
    {"a", "b", "c", "d", "e", "f", "g", "h", "i", "j", "k", "l", "m", "n", "o", "p", "q",
     "r", "s", "t", "u", "v", "w", "x", "y", "z",
     "A", "B", "C", "D", "E", "F", "G", "H", "I", "J", "K", "L", "M", "N", "O", "P", "Q",
     "R", "S", "T", "U", "V", "W", "X", "Y", "Z",
     "0", "1", "2", "3", "4", "5", "6", "7", "8", "9"}

\* len(re.sub(r"[^A-Za-z0-9]+", "", word))
AlnumCount(w) == Cardinality({i \in 1..Len(w) : Chr(w, i) \in AlnumChars})

RECURSIVE SumAlnum(_)
SumAlnum(words) == IF words = <<>> THEN 0 ELSE AlnumCount(words[1]) + SumAlnum(Tail(words))

\* every clause a unit, the last one too
TrailingMerge_none(us) == us

\* "Special-case very short trailing units (e.g., "Amen.")"
TrailingMerge(us) ==
    IF Len(us) >= 2 /\ (Len(us[Len(us)]) <= 2 \/ SumAlnum(us[Len(us)]) <= 8)
    THEN Append(SubSeq(us, 1, Len(us) - 2), us[Len(us) - 1] \o us[Len(us)])
    ELSE us

\* the units of split_by_lines, each a sequence of words
VerseUnits(words) == TrailingMerge(ClauseSplit(words))

\* --- 2) greedy packing of the units into slides
\* the wrapped unit as one block, whatever its number of lines
HardSplitUnit_whole(u, mlc, ml) == << <<wrap_text_to_lines(u, mlc)>> >>

\* a unit that does not fit an empty slide: blocks of max_lines wrapped lines
HardSplitUnit(u, mlc, ml) ==
    LET chunks == Chunks(wrap_text_to_lines(u, mlc), ml)
    IN  [k \in 1..Len(chunks) |-> <<chunks[k]>>]

_flush_current(st) ==
    IF st.cur # <<>> THEN [su |-> Append(st.su, st.cur), cur |-> <<>>] ELSE st

StartWith(st, u, mlc, ml) ==
    IF ~_fits_plain(u, mlc, ml)
    THEN [st EXCEPT !.su = st.su \o HardSplitUnit(u, mlc, ml)]
    ELSE [st EXCEPT !.cur = <<<<u>>>>]

PackUnit(st, u, mlc, ml) ==
    IF st.cur = <<>> THEN StartWith(st, u, mlc, ml)
    ELSE IF _fits_plain(FlattenUnits(Append(st.cur, <<u>>)), mlc, ml)
         THEN [st EXCEPT !.cur = Append(st.cur, <<u>>)]
         ELSE StartWith(_flush_current(st), u, mlc, ml)

RECURSIVE PackUnitsFrom(_, _, _, _, _)
PackUnitsFrom(us, k, st, mlc, ml) ==
    IF k > Len(us) THEN _flush_current(st).su
    ELSE PackUnitsFrom(us, k + 1, PackUnit(st, us[k], mlc, ml), mlc, ml)

\* slide_units after the packing loop
PackSlideUnits(us, mlc, ml) == PackUnitsFrom(us, 1, [su |-> <<>>, cur |-> <<>>], mlc, ml)

\* --- 3a) head cleanup (tiny first slide).  A repair state is the pair
\* [su |-> slide_units, sl |-> slides].
BothFit(a, b, ml) == _fits_wrapped(a, ml) /\ _fits_wrapped(b, ml)

\* "If slide 2 is a single large unit, split it into smaller punctuation units"
ResplitSecond(r, mlc) ==
    IF Len(r.su[2]) = 1 /\ ~IsFixed(r.su[2][1])
    THEN LET parts == ClauseSplit(r.su[2][1][1])
         IN  IF Len(parts) >= 2
             THEN LET su2 == [r.su EXCEPT ![2] = [k \in 1..Len(parts) |-> <<parts[k]>>]]
                  IN  [su |-> su2, sl |-> RenderAll(su2, mlc)]
             ELSE r
    ELSE r

\* the donation loop without "revert and stop": one donation, kept
DonateLoop_keeping(r, mlc, ml) ==
    IF Len(r.su[2]) > 1
    THEN LET su2 == [r.su EXCEPT ![1] = Append(r.su[1], r.su[2][1]), ![2] = Tail(r.su[2])]
         IN  [su |-> su2, sl |-> RenderAll(su2, mlc)]
    ELSE r

\* "Donate multiple units if needed and if it still fits."
RECURSIVE DonateLoop(_, _, _)
DonateLoop(r, mlc, ml) ==
    IF Len(r.su[2]) > 1
    THEN LET su2 == [r.su EXCEPT ![1] = Append(r.su[1], r.su[2][1]), ![2] = Tail(r.su[2])]
             head_wrapped == _render(su2[1], mlc)
             next_wrapped == _render(su2[2], mlc)
         IN  IF BothFit(head_wrapped, next_wrapped, ml) /\ ~_is_tiny(head_wrapped, mlc)
             THEN [su |-> su2, sl |-> RenderAll(su2, mlc)]
             ELSE IF ~BothFit(head_wrapped, next_wrapped, ml)
                  THEN r
                  ELSE DonateLoop([su |-> su2, sl |-> RenderAll(su2, mlc)], mlc, ml)
    ELSE r

\* "Case B: slide 2 IS fixed (contains '\n') -> donate ONE wrapped line"
DonateLine(r, mlc, ml) ==
    LET lines2 == r.su[2][1]
    IN  IF Len(lines2) >= 2
        THEN LET head_plain == FlattenUnits(r.su[1]) \o lines2[1]
                 new_head_wrapped == wrap_text_to_lines(head_plain, mlc)
                 new_next_wrapped == Tail(lines2)
             IN  IF BothFit(new_head_wrapped, new_next_wrapped, ml)
                    /\ ~_is_tiny(new_head_wrapped, mlc)
                 THEN LET su2 == [r.su EXCEPT ![1] = << <<head_plain>> >>,
                                              ![2] = <<new_next_wrapped>>]
                      IN  [su |-> su2, sl |-> RenderAll(su2, mlc)]
                 ELSE r
        ELSE r

HeadCleanupOf(r, mlc, ml) ==
    IF Len(r.su) >= 2 /\ _is_tiny(r.sl[1], mlc)
    THEN IF ~FirstFixed(r.su[1]) /\ ~FirstFixed(r.su[2])
         THEN DonateLoop(ResplitSecond(r, mlc), mlc, ml)
         ELSE IF ~FirstFixed(r.su[1]) /\ FirstFixed(r.su[2]) /\ Len(r.su[2]) = 1
              THEN DonateLine(r, mlc, ml)
              ELSE r
    ELSE r

\* --- 3aa) general head polish: works on the rendered slides alone
_rewrap_from_lines(lines, mlc) == wrap_text_to_lines(Concat(lines), mlc)

\* the body of the inner for loop at index i (slides i and i + 1)
PolishAt(sl, i, mlc, ml) ==
    IF Len(sl[i]) # 1 \/ Len(sl[i + 1]) < 2 THEN sl
    ELSE LET new_a == _rewrap_from_lines(<<sl[i][1], sl[i + 1][1]>>, mlc)
             new_b == _rewrap_from_lines(Tail(sl[i + 1]), mlc)
         IN  IF BothFit(new_a, new_b, ml) /\ Len(new_a) # 1
             THEN [sl EXCEPT ![i] = new_a, ![i + 1] = new_b]
             ELSE sl

RECURSIVE PolishPass(_, _, _, _)
PolishPass(sl, i, mlc, ml) ==
    IF i > Len(sl) - 1 THEN sl ELSE PolishPass(PolishAt(sl, i, mlc, ml), i + 1, mlc, ml)

RECURSIVE PolishPasses(_, _, _, _)
\* "Try up to 2 passes because fixing one head can reveal another downstream."
PolishPasses(sl, passes, mlc, ml) ==
    IF passes = 0 THEN sl
    ELSE LET next == PolishPass(sl, 1, mlc, ml)
         IN  IF next = sl THEN sl ELSE PolishPasses(next, passes - 1, mlc, ml)

HEAD_POLISH_PASSES == 2

HeadPolishOf(sl, mlc, ml) == PolishPasses(sl, HEAD_POLISH_PASSES, mlc, ml)

\* --- 3b) word-level borrow for a one-line head ending in , ; :
OpeningMarks == {",", ";", ":"}

\* max(6, int(max_line_chars * 0.8))
BorrowCap(mlc) == Max(6, (4 * mlc) \div 5)

RECURSIVE BorrowWords(_, _, _, _, _, _, _)
\* for k in range(3, max_borrow + 1)
BorrowWords(r, head_plain, next_words, k, max_borrow, mlc, ml) ==
    IF k > max_borrow THEN r
    ELSE LET new_head_plain == head_plain \o SubSeq(next_words, 1, k)
             new_next_plain == SubSeq(next_words, k + 1, Len(next_words))
             new_head_wrapped == wrap_text_to_lines(new_head_plain, mlc)
             new_next_wrapped == wrap_text_to_lines(new_next_plain, mlc)
         IN  IF new_next_plain = <<>> THEN r
             ELSE IF BothFit(new_head_wrapped, new_next_wrapped, ml)
                     /\ Len(new_head_wrapped) >= 2
                  THEN LET su2 == [r.su EXCEPT ![1] = << <<new_head_plain>> >>,
                                               ![2] = << <<new_next_plain>> >>]
                       IN  [su |-> su2, sl |-> RenderAll(su2, mlc)]
                  ELSE BorrowWords(r, head_plain, next_words, k + 1, max_borrow, mlc, ml)

WordBorrowOf(r, mlc, ml) ==
    IF Len(r.su) >= 2
    THEN LET head_plain == FlattenUnits(r.su[1])
             next_words == FlattenUnits(r.su[2])
         IN  IF Len(r.sl[1]) = 1 /\ EndsWithAny(head_plain, OpeningMarks)
             THEN BorrowWords(r, head_plain, next_words, 3,
                              Min(Len(next_words) - 1, BorrowCap(mlc)), mlc, ml)
             ELSE r
    ELSE r

\* --- 3b) repair from the end (tails).  jx is the 1-based index of the
\* slide under repair (j + 1 of the code); the loop runs while jx > 1.
RECURSIVE MoveLoop(_, _, _, _)
\* "try moving last units from prev -> tail until tail isn't tiny (or can't)"
MoveLoop(r, j, mlc, ml) ==
    IF Len(r.su[j - 1]) > 1
    THEN LET prev == r.su[j - 1]
             su2 == [r.su EXCEPT ![j - 1] = SubSeq(prev, 1, Len(prev) - 1),
                                 ![j] = <<prev[Len(prev)]>> \o r.su[j]]
             prev_wrapped == _render(su2[j - 1], mlc)
             tail_wrapped == _render(su2[j], mlc)
         IN  IF BothFit(prev_wrapped, tail_wrapped, ml) /\ ~_is_tiny(tail_wrapped, mlc)
             THEN [su |-> su2, sl |-> r.sl, moved |-> TRUE]
             ELSE IF ~BothFit(prev_wrapped, tail_wrapped, ml)
                  THEN [su |-> r.su, sl |-> r.sl, moved |-> FALSE]
                  ELSE MoveLoop([su |-> su2, sl |-> RenderAll(su2, mlc)], j, mlc, ml)
    ELSE [su |-> r.su, sl |-> r.sl, moved |-> FALSE]

TailIteration_stuck(r, j, mlc, ml) == [su |-> r.su, sl |-> r.sl, jx |-> j]

\* one iteration of "while j > 0": the next [su, sl, j]
TailIteration(r, j, mlc, ml) ==
    IF ~_is_tiny(r.sl[j], mlc) THEN [su |-> r.su, sl |-> r.sl, jx |-> j - 1]
    ELSE
    LET merged_plain == FlattenUnits(r.su[j - 1]) \o FlattenUnits(r.su[j])
    IN  IF _fits_wrapped(wrap_text_to_lines(merged_plain, mlc), ml)
        THEN LET su2 == [k \in 1..(Len(r.su) - 1) |->
                            IF k = j - 1 THEN << <<merged_plain>> >>
                            ELSE IF k < j THEN r.su[k] ELSE r.su[k + 1]]
             IN  [su |-> su2, sl |-> RenderAll(su2, mlc), jx |-> Len(su2)]
        ELSE LET m == IF ~FirstFixed(r.su[j - 1]) /\ ~FirstFixed(r.su[j])
                      THEN MoveLoop(r, j, mlc, ml)
                      ELSE [su |-> r.su, sl |-> r.sl, moved |-> FALSE]
             IN  IF m.moved
                 THEN [su |-> m.su, sl |-> RenderAll(m.su, mlc), jx |-> Len(m.su)]
                 ELSE [su |-> m.su, sl |-> m.sl, jx |-> j - 1]

\* --- 3c) FORCE: avoid a 1-line opening clause ending with , ; :
OPENING_BORROW_TRIES == 16
OPENING_BORROW_TAKE == 3

RECURSIVE OpeningLoop(_, _, _, _, _, _)
\* for _ in range(16): head_words stays the original head line
OpeningLoop(sl, head_words, next_words, tries, mlc, ml) ==
    IF tries = 0 \/ Len(next_words) < 3 THEN sl
    ELSE LET take == Min(OPENING_BORROW_TAKE, Len(next_words))
             moved == SubSeq(next_words, 1, take)
             rest == SubSeq(next_words, take + 1, Len(next_words))
             new_head == wrap_text_to_lines(head_words \o moved, mlc)
             new_next == wrap_text_to_lines(rest, mlc)
         IN  IF _fits_wrapped(new_head, ml)
                /\ (new_next = <<>> \/ _fits_wrapped(new_next, ml))
                /\ Len(new_head) >= 2
             THEN IF new_next # <<>>
                  THEN [sl EXCEPT ![1] = new_head, ![2] = new_next]
                  ELSE <<new_head>> \o SubSeq(sl, 3, Len(sl))
             ELSE IF ~_fits_wrapped(new_head, ml) THEN sl
                  ELSE OpeningLoop(sl, head_words, rest, tries - 1, mlc, ml)

OpeningBorrowOf(sl, mlc, ml) ==
    IF Len(sl) >= 2 /\ Len(sl[1]) = 1 /\ EndsWithAny(WordsOf(sl[1]), OpeningMarks)
    THEN OpeningLoop(sl, sl[1][1], WordsOf(sl[2]), OPENING_BORROW_TRIES, mlc, ml)
    ELSE sl

RECURSIVE TailLoop(_, _, _, _)
\* while j > 0
TailLoop(r, j, mlc, ml) ==
    IF j <= 1 THEN r
    ELSE LET t == TailIteration(r, j, mlc, ml)
         IN  TailLoop([su |-> t.su, sl |-> t.sl], t.jx, mlc, ml)

\* the pages split_by_lines returns for a text
split_by_lines(txt, mlc, ml) ==
    IF Split(txt) = <<>> THEN <<>>
    ELSE LET su0 == PackSlideUnits(VerseUnits(Split(txt)), mlc, ml)
             cleaned == HeadCleanupOf([su |-> su0, sl |-> RenderAll(su0, mlc)], mlc, ml)
             polished == [su |-> cleaned.su, sl |-> HeadPolishOf(cleaned.sl, mlc, ml)]
             borrowed == WordBorrowOf(polished, mlc, ml)
             repaired == TailLoop(borrowed, Len(borrowed.su), mlc, ml)
         IN  OpeningBorrowOf(repaired.sl, mlc, ml)

\* --- build_verse_deck: the John 4:23 polish and the restore
JOHN_POLISH_TRIES == 40
JOHN_POLISH_TAKE == 2

\* int(max_chars_per_line * 0.55)
FilledChars(mlc) == (55 * mlc) \div 100

_last_line_ok(block, mlc) ==
    /\ block # <<>>
    /\ \/ Len(block[Len(block)]) >= 6
       \/ LineChars(block[Len(block)]) >= FilledChars(mlc)

RECURSIVE JohnLoop(_, _, _, _, _, _)
JohnLoop(bl, w0, w1, tries, mlc, ml) ==
    IF tries = 0 \/ Len(w1) < 3 THEN bl
    ELSE LET take == Min(JOHN_POLISH_TAKE, Len(w1))
             nw1 == SubSeq(w1, take + 1, Len(w1))
             nw0 == w0 \o SubSeq(w1, 1, take)
             nb0 == wrap_text_to_lines(nw0, mlc)
             nb1 == wrap_text_to_lines(nw1, mlc)
         IN  IF _count_lines(nb0) <= ml /\ _count_lines(nb1) <= ml /\ _last_line_ok(nb0, mlc)
             THEN [bl EXCEPT ![1] = nb0, ![2] = nb1]
             ELSE IF _count_lines(nb0) > ml THEN bl
                  ELSE JohnLoop(bl, nw0, nw1, tries - 1, mlc, ml)

JohnPolishOf(r, bl, mlc, ml) ==
    IF Strip(r) = "John 4:23" /\ Len(bl) >= 2
    THEN IF \/ Len(bl[1]) = 1 /\ EndsWithAny(WordsOf(bl[1]), OpeningMarks)
            \/ Len(bl[1]) >= 2 /\ ~_last_line_ok(bl[1], mlc)
         THEN JohnLoop(bl, WordsOf(bl[1]), WordsOf(bl[2]), JOHN_POLISH_TRIES, mlc, ml)
         ELSE bl
    ELSE bl

\* the text handed to add_scripture_slide_from_template: its lines as strings
RestoreBlock(block) == [k \in 1..Len(block) |-> restore_bracket_spaces(Join(block[k]))]

-----------------------------------------------------------------------------
(* Inputs *)

RECURSIVE SeqsUpTo(_, _)
SeqsUpTo(S, n) ==
    IF n = 0 THEN {<<>>}
    ELSE LET shorter == SeqsUpTo(S, n - 1)
         IN  shorter \cup {Append(q, x) : q \in {r \in shorter : Len(r) = n - 1}, x \in S}

Monospace == [adv |-> 10, thin |-> 10]
Proportional == [adv |-> 10, thin |-> 5]

LyricVocabulary ==
    {"  ",
     "Amazing grace",
     " how sweet the sound that saved "}

\* build_deck hands over no recorder or the one of from_env(); a caller of
\* the packer may attach one with the default settings
Recorders == {NoRecorder, DebugRecorder(DebugSettings), DebugRecorder(from_env)}

BoxWidths == {140, 330}
BoxHeights == {15, 50, 80, 110}
LineHeights == {20}
GapEms == {0, 35}

WrapVocabulary ==
    {"", "   ",
     "Amazing grace, how sweet the sound",
     "Hallelujah",
     " praise to the Lord of all ",
     "bless the Lord and sing to him",
     "I will sing of the mercies of the Lord",
     "we will sing praise forever",
     "we will sing Hallelujah"}

WrapWidths == {60, 140, 207, 330}

ClauseVocabulary ==
    {"bbbbb,",
     "aa  aa aa bbbbb,",
     "a [b c] d bbbbb,",
     "cccccccccccccccc"}

BlankTexts == {"", "   "}

ScenarioTexts ==
    {"For God so loved the world, that he gave his only begotten Son: Amen."}

\* a verse of four clauses: one line, three lines, one line and two lines
\* at 18 characters a line
LongTexts ==
    {"aaaaaaaa, bbbbbbbbbb cccccccccc dddddddddd, eeeeeeee, ffffffffff gggggggggg hh."}

\* a bracket span with a space after "[" and before "]"
SpacedSpanTexts == {"a [ b c ] d."}

VerseTexts ==
    BlankTexts \cup ScenarioTexts \cup LongTexts \cup SpacedSpanTexts
    \cup {Join(q) : q \in SeqsUpTo(ClauseVocabulary, MaxClauses) \ {<<>>}}

\* build_verse_deck: max_chars_per_line = max(18, min(chars_per_line, 60)),
\* max_lines_per_slide = max(2, lines_fit)
DeckFits == {<<18, 2>>, <<18, 3>>}
DirectFits == {<<9, 1>>, <<18, 2>>}
DirectTexts ==
    BlankTexts \cup ScenarioTexts
    \cup {Join(q) : q \in SeqsUpTo(ClauseVocabulary, 2) \ {<<>>}}

Refs == {"John 3:16", "John 4:23"}

-----------------------------------------------------------------------------
(* The measured geometry of the lyric placeholder: _build_measure_font.     *)
(* A template shape is a record of optional values, <<>> for None and <<v>> *)
(* for v: width and height in EMU, font_size and line_spacing in hundredths *)
(* (of a pt, of the multiplier).  Lengths that come out are hundredths of   *)
(* a px, the line factor is in hundredths.                                  *)

EMU_PER_INCH == 914400
PT_PER_INCH == 72
MEASURE_DPI == 96
DEFAULT_FONT_SIZE == 6000
DEFAULT_LINE_FACTOR == 110
MIN_SIZE_PX == 8

\* (emu / EMU_PER_INCH) * PT_PER_INCH, in hundredths of a pt
_emu_to_pt(emu) == (emu * 100) \div (EMU_PER_INCH \div PT_PER_INCH)

\* pts * PX_PER_PT with PX_PER_PT = MEASURE_DPI / PT_PER_INCH
PxOfPt(pts) == (pts * MEASURE_DPI) \div PT_PER_INCH

\* round(n / d): to the nearest integer, a tie to the even one
Round(n, d) ==
    LET q == n \div d
        r == n % d
    IN  IF 2 * r < d THEN q
        ELSE IF 2 * r > d THEN q + 1
        ELSE IF q % 2 = 0 THEN q ELSE q + 1

\* a size of None or 0 is falsy: the default of 60 pt
_best_font_size_pts_from_shape(shape) ==
    IF shape.font_size = <<>> \/ shape.font_size = <<0>>
    THEN DEFAULT_FONT_SIZE
    ELSE shape.font_size[1]

\* None: 1.10; a number above 3 is taken as points
_line_spacing_factor_from_shape(shape, font_size_pts) ==
    IF shape.line_spacing = <<>> THEN DEFAULT_LINE_FACTOR
    ELSE IF shape.line_spacing[1] > 300
         THEN (shape.line_spacing[1] * 100) \div Max(font_size_pts, 100)
         ELSE shape.line_spacing[1]

\* font.getmetrics() of the font _try_load_font found, in thousandths of
\* size_px; "approximate" is the except branch, int(size_px * 0.8) and
\* int(size_px * 0.2)
FontMetrics ==
    {[name |-> "approximate", ascent |-> 800, descent |-> 200],
     [name |-> "truetype", ascent |-> 905, descent |-> 212]}

\* the result of _build_measure_font without the font object; raised names
\* the exception that leaves the function, "" for a normal return
_build_measure_font(shape, metrics) ==
    IF shape.width = <<>> \/ shape.height = <<>>
    THEN [raised |-> "TypeError", width_px |-> 0, height_px |-> 0, line_h |-> 0]
    ELSE LET width_pts == _emu_to_pt(shape.width[1])
             height_pts == _emu_to_pt(shape.height[1])
             font_size_pts == _best_font_size_pts_from_shape(shape)
             line_factor == _line_spacing_factor_from_shape(shape, font_size_pts)
             size_px == Max(MIN_SIZE_PX, Round(font_size_pts * MEASURE_DPI, PT_PER_INCH * 100))
             ascent == (size_px * metrics.ascent) \div 1000
             descent == (size_px * metrics.descent) \div 1000
             raw_line_h == ascent + descent
         IN  [raised |-> "",
              width_px |-> PxOfPt(width_pts),
              height_px |-> PxOfPt(height_pts),
              line_h |-> raw_line_h * Max(line_factor, 100)]

\* template shapes: a missing, a zero and a usual width and height (330 px
\* and 110 px), no font size, 24 pt and 4 pt, no line spacing, 0.9, 1.5 and
\* 72 pt
ShapeWidths == {<<>>, <<0>>, <<3143250>>}
ShapeHeights == {<<>>, <<0>>, <<1047750>>}
ShapeFontSizes == {<<>>, <<2400>>, <<400>>}
ShapeLineSpacings == {<<>>, <<90>>, <<150>>, <<7200>>}

-----------------------------------------------------------------------------
(* The three runs: a lyric section through build_deck, one lyric line      *)
(* through the wrapper, one verse through build_verse_deck or              *)
(* split_by_lines.  A run leaves the variables of the others alone.        *)

NoGeometry ==
    /\ font = Monospace
    /\ box_width_px = 0
    /\ box_height_px = 0
    /\ line_height_px = 0
    /\ lyric_gap_em = 0
    /\ dbg = NoRecorder

NoLyrics == lyric_lines = <<>> /\ packed = <<>> /\ before = <<>> /\ out = <<>>

NoWrap == line = "" /\ wrapped = <<>>

NoShape ==
    /\ template_shape = [width |-> <<>>, height |-> <<>>, font_size |-> <<>>,
                         line_spacing |-> <<>>]
    /\ measured = [raised |-> "", width_px |-> 0, height_px |-> 0, line_h |-> 0]

NoVerse ==
    /\ caller = "" /\ verse_text = "" /\ max_line_chars = 0 /\ max_lines = 0
    /\ text = "" /\ clauses = <<>> /\ units = <<>> /\ slide_units = <<>>
    /\ slides = <<>> /\ jx = 0 /\ ref = "" /\ blocks = <<>>

LyricInit ==
    /\ pc = "start"
    /\ font = Monospace
    /\ lyric_lines \in SeqsUpTo(LyricVocabulary, MaxLyrics)
    /\ box_width_px \in BoxWidths
    /\ box_height_px \in BoxHeights
    /\ line_height_px \in LineHeights
    /\ lyric_gap_em \in GapEms
    /\ dbg \in IF Len(lyric_lines) <= MaxRecordedLyrics THEN Recorders ELSE {NoRecorder}
    /\ packed = <<>> /\ before = <<>> /\ out = <<>>
    /\ NoWrap /\ NoVerse /\ NoShape

Pack ==
    /\ pc = "start"
    /\ packed' = _pack_lyrics_into_slides_by_height(
                     lyric_lines, font, box_width_px, box_height_px,
                     line_height_px, lyric_gap_em, dbg)
    /\ pc' = "packed"
    /\ UNCHANGED <<shape_vars, geometry, lyric_lines, before, out, wrap_vars, fit, verse_vars>>

\* packed = _rebalance_single_lyric_slides(packed, ...) in build_deck
Rebalance ==
    /\ pc = "packed"
    /\ before' = Pages(packed)
    /\ out' = _rebalance_single_lyric_slides(Pages(packed))
    /\ pc' = "rebalanced"
    /\ UNCHANGED <<shape_vars, geometry, lyric_lines, packed, wrap_vars, fit, verse_vars>>

\* the rebalancer run once more on its own output
RebalanceAgain ==
    /\ pc = "rebalanced"
    /\ before' = out
    /\ out' = _rebalance_single_lyric_slides(out)
    /\ pc' = "rebalanced_again"
    /\ UNCHANGED <<shape_vars, geometry, lyric_lines, packed, wrap_vars, fit, verse_vars>>

LyricNext == Pack \/ Rebalance \/ RebalanceAgain

WrapInit ==
    /\ pc = "w_start"
    /\ font \in {Monospace, Proportional}
    /\ box_width_px \in WrapWidths
    /\ box_height_px = 0 /\ line_height_px = 0 /\ lyric_gap_em = 0
    /\ dbg \in Recorders
    /\ line \in WrapVocabulary
    /\ wrapped = <<>>
    /\ NoLyrics /\ NoVerse /\ NoShape

Wrap ==
    /\ pc = "w_start"
    /\ wrapped' = _wrap_one_lyric_line_by_width(line, font, box_width_px, dbg)
    /\ pc' = "w_wrapped"
    /\ UNCHANGED <<shape_vars, geometry, lyric_vars, line, fit, verse_vars>>

WrapNext == Wrap

VerseInit ==
    /\ pc = "v_start"
    /\ \/ /\ caller = "build_verse_deck"
          /\ verse_text \in VerseTexts
          /\ \E f \in DeckFits : max_line_chars = f[1] /\ max_lines = f[2]
       \/ /\ caller = "direct"
          /\ verse_text \in DirectTexts
          /\ \E f \in DirectFits : max_line_chars = f[1] /\ max_lines = f[2]
    /\ text = "" /\ clauses = <<>> /\ units = <<>> /\ slide_units = <<>>
    /\ slides = <<>> /\ jx = 0 /\ ref = "" /\ blocks = <<>>
    /\ NoGeometry /\ NoLyrics /\ NoWrap /\ NoShape

\* build_verse_deck: normalise, skip an unavailable verse, protect the spans
Protect ==
    /\ pc = "v_start" /\ caller = "build_verse_deck"
    /\ LET vt == Join(Split(verse_text))
       IN  IF vt = "" \/ Contains(Lower(vt), "text unavailable")
           THEN text' = "" /\ pc' = "v_skipped"
           ELSE text' = protect_bracket_spans(vt) /\ pc' = "v_call"
    /\ UNCHANGED <<beside_verse, fit, clauses, units, slide_units, slides,
                   jx, ref, blocks>>

\* split_by_lines called with the text as it is
CallDirect ==
    /\ pc = "v_start" /\ caller = "direct"
    /\ text' = verse_text
    /\ pc' = "v_call"
    /\ UNCHANGED <<beside_verse, fit, clauses, units, slide_units, slides,
                   jx, ref, blocks>>

\* split_by_lines, 1): the early return and the clause units
SplitUnits ==
    /\ pc = "v_call"
    /\ IF Split(text) = <<>>
       THEN clauses' = <<>> /\ units' = <<>> /\ slides' = <<>> /\ pc' = "v_returned"
       ELSE /\ clauses' = ClauseSplit(Split(text))
            /\ units' = VerseUnits(Split(text))
            /\ slides' = slides
            /\ pc' = "v_units"
    /\ UNCHANGED <<beside_verse, fit, text, slide_units,
                   jx, ref, blocks>>

\* 2): the packing loop and the first rendering
PackUnits ==
    /\ pc = "v_units"
    /\ slide_units' = PackSlideUnits(units, max_line_chars, max_lines)
    /\ slides' = RenderAll(slide_units', max_line_chars)
    /\ pc' = "v_packed"
    /\ UNCHANGED <<beside_verse, fit, text, clauses, units, jx, ref, blocks>>

\* 3a)
HeadCleanup ==
    /\ pc = "v_packed"
    /\ LET r == HeadCleanupOf([su |-> slide_units, sl |-> slides], max_line_chars, max_lines)
       IN  slide_units' = r.su /\ slides' = r.sl
    /\ pc' = "v_cleaned"
    /\ UNCHANGED <<beside_verse, fit, text, clauses, units, jx, ref, blocks>>

\* 3aa)
HeadPolish ==
    /\ pc = "v_cleaned"
    /\ slides' = HeadPolishOf(slides, max_line_chars, max_lines)
    /\ pc' = "v_polished"
    /\ UNCHANGED <<beside_verse, fit, text, clauses, units, slide_units,
                   jx, ref, blocks>>

\* 3b) the word-level borrow, and j = len(slide_units) - 1
WordBorrow ==
    /\ pc = "v_polished"
    /\ LET r == WordBorrowOf([su |-> slide_units, sl |-> slides], max_line_chars, max_lines)
       IN  slide_units' = r.su /\ slides' = r.sl /\ jx' = Len(r.su)
    /\ pc' = "v_tail"
    /\ UNCHANGED <<beside_verse, fit, text, clauses, units, ref, blocks>>

\* one iteration of the tail loop
TailStep ==
    /\ pc = "v_tail" /\ jx > 1
    /\ LET t == TailIteration([su |-> slide_units, sl |-> slides], jx,
                              max_line_chars, max_lines)
       IN  slide_units' = t.su /\ slides' = t.sl /\ jx' = t.jx
    /\ UNCHANGED <<pc, beside_verse, fit, text, clauses, units, ref, blocks>>

\* 3c), and the return
OpeningBorrow ==
    /\ pc = "v_tail" /\ jx <= 1
    /\ slides' = OpeningBorrowOf(slides, max_line_chars, max_lines)
    /\ pc' = "v_returned"
    /\ UNCHANGED <<beside_verse, fit, text, clauses, units, slide_units,
                   jx, ref, blocks>>

\* build_verse_deck: the John 4:23 polish, then every block restored
RenderBlocks ==
    /\ pc = "v_returned" /\ caller = "build_verse_deck"
    /\ \E r \in Refs :
          /\ ref' = r
          /\ blocks' = [k \in 1..Len(slides) |->
                           RestoreBlock(JohnPolishOf(r, slides, max_line_chars, max_lines)[k])]
    /\ pc' = "v_rendered"
    /\ UNCHANGED <<beside_verse, fit, text, clauses, units, slide_units,
                   slides, jx>>

VerseNext ==
    \/ Protect \/ CallDirect \/ SplitUnits \/ PackUnits \/ HeadCleanup \/ HeadPolish
    \/ WordBorrow \/ TailStep \/ OpeningBorrow \/ RenderBlocks

\* build_deck: the geometry of the lyric placeholder
GeomInit ==
    /\ pc = "g_start"
    /\ template_shape \in [width : ShapeWidths, height : ShapeHeights,
                           font_size : ShapeFontSizes, line_spacing : ShapeLineSpacings]
    /\ measured = [raised |-> "", width_px |-> 0, height_px |-> 0, line_h |-> 0]
    /\ NoGeometry /\ NoLyrics /\ NoWrap /\ NoVerse

Measure ==
    /\ pc = "g_start"
    /\ \E metrics \in FontMetrics :
          measured' = _build_measure_font(template_shape, metrics)
    /\ pc' = "g_measured"
    /\ UNCHANGED <<template_shape, geometry, lyric_vars, wrap_vars, fit, verse_vars>>

GeomNext == Measure

LyricSpec == LyricInit /\ [][LyricNext]_vars
GeomSpec == GeomInit /\ [][GeomNext]_vars
WrapSpec == WrapInit /\ [][WrapNext]_vars
VerseSpec == VerseInit /\ [][VerseNext]_vars

Init == LyricInit \/ WrapInit \/ VerseInit \/ GeomInit
Next == LyricNext \/ WrapNext \/ VerseNext \/ GeomNext
Spec == Init /\ [][Next]_vars

-----------------------------------------------------------------------------
(* Properties *)

\* used height of a page: its display lines, and one gap for every
\* unit-start line after its first line (hundredths of a px)
UsedHeight(p) ==
    100 * Len(p.lines) * line_height_px
    + GapPx(line_height_px, lyric_gap_em)
      * Cardinality({k \in 2..Len(p.lines) : p.flags[k]})

WithinBudget(p) == UsedHeight(p) <= HEIGHT_SAFETY * box_height_px

UnitStarts(p) == Cardinality({k \in 1..Len(p.lines) : p.flags[k]})

\* the words of the lines of pages, in page and line order
PageWords(pages) ==
    Concat([k \in 1..Len(pages) |->
               Concat([l \in 1..Len(pages[k].lines) |-> Split(pages[k].lines[l])])])

\* the lines of pages a..b
PageLines(pages, a, b) == Concat([k \in 1..(b - a + 1) |-> pages[a + k - 1].lines])

\* the (display line, unit-start flag) pairs of pages, in order
PagePairs(pages) ==
    Concat([k \in 1..Len(pages) |->
               [l \in 1..Len(pages[k].lines) |-> <<pages[k].lines[l], pages[k].flags[l]>>]])

InputWords == Concat([k \in 1..Len(lyric_lines) |-> Split(lyric_lines[k])])

LyricWrap(i) == _wrap_one_lyric_line_by_width(lyric_lines[i], font, box_width_px, dbg)

IsBlank(s) == Strip(s) = ""

NonBlank(lyrics) == SelectSeq(lyrics, LAMBDA s : ~IsBlank(s))

\* C1: every page the lyric packer emits, other than the pages of a hard
\* split, has used height at most box height x 0.98.
C1_PackerHeightInvariant ==
    \A k \in 1..Len(packed) : ~packed[k].hard => WithinBudget(packed[k])

\* a page of several units with their gaps, closed because the next unit
\* did not fit
C1_Witness ==
    /\ pc = "packed"
    /\ lyric_gap_em > 0
    /\ \E k \in 1..(Len(packed) - 1) :
          /\ ~packed[k].hard
          /\ UnitStarts(packed[k]) >= 2
          /\ UsedHeight(packed[k]) + 100 * line_height_px > HEIGHT_SAFETY * box_height_px

\* C2: the rebalancer commits a move only if both pages are within the
\* height budget afterwards; no page within the budget before the
\* rebalancing exceeds it after.
C2_CommitOnlyWithinBudget ==
    pc = "rebalanced" =>
        \A k \in 1..Len(out) :
            /\ out[k] # before[k] => WithinBudget(out[k])
            /\ WithinBudget(before[k]) => WithinBudget(out[k])

\* the words of the slides of split_by_lines, in page and line order
SlideWords(sl) == Concat([k \in 1..Len(sl) |-> WordsOf(sl[k])])

\* C3: the words of the pages split_by_lines returns, in page and line
\* order, are the words of its input text.
C3_NoContentLoss == pc = "v_returned" => SlideWords(slides) = Split(text)

\* C4: every display line of the lyric wrapper measures at most
\* max width x 0.97, a word wider than that being hard-split.
C4_WidthInvariant ==
    pc = "w_wrapped" =>
        \A k \in 1..Len(wrapped) : FitsWidth(font, wrapped[k], box_width_px, NoRecorder)

RECURSIVE SpansFrom(_, _)
\* the bracket spans of a text
SpansFrom(t, i) ==
    IF i > Len(t) THEN {}
    ELSE IF Chr(t, i) = "[" /\ NextClose(t, i) # 0
         THEN {SubSeq(t, i, NextClose(t, i))} \cup SpansFrom(t, NextClose(t, i) + 1)
         ELSE SpansFrom(t, i + 1)

\* C5: every bracket span of a verse lies whole within one line of one
\* page of what build_verse_deck renders.
C5_SpanIntegrity ==
    pc = "v_rendered" =>
        \A s \in SpansFrom(Join(Split(verse_text)), 1) :
            \E k \in 1..Len(blocks) : \E l \in 1..Len(blocks[k]) : Contains(blocks[k][l], s)

\* C6: the words of the packed pages, and of the rebalanced pages, are the
\* words of the input lines in order; the rebalancer keeps the number of
\* pages and the sequence of (display line, unit-start flag) pairs.
C6_NoLyricContentLoss ==
    /\ pc # "start" => PageWords(packed) = InputWords
    /\ pc \in {"rebalanced", "rebalanced_again"} =>
          /\ PageWords(out) = InputWords
          /\ Len(out) = Len(before)
          /\ PagePairs(out) = PagePairs(before)

\* a rebalancing that moved a unit, of an input with a blank line and a
\* lyric of several display lines
C6_Witness ==
    /\ pc = "rebalanced"
    /\ out # before
    /\ \E k \in 1..Len(out) : \E l \in 1..Len(out[k].lines) : ~out[k].flags[l]
    /\ \E k \in 1..Len(lyric_lines) : IsBlank(lyric_lines[k])

\* C7: rebalancing the rebalanced pages of the packer changes nothing.
C7_RebalanceIdempotent == pc = "rebalanced_again" => out = before

\* a second rebalancing of pages the first one changed
C7_Witness == pc = "rebalanced_again" /\ before # Pages(packed)

\* the display lines of every lyric, as the packer wraps them
LyricWraps == [i \in 1..Len(lyric_lines) |-> LyricWrap(i)]

\* the lyric packer's hard split of lyric i, given the display lines ws of
\* every lyric: the pages before it hold the lines of the lyrics before it,
\* and its own lines fill pages a..b
LyricHardSplit(ws, i) ==
    \E a \in 1..Len(packed) : \E b \in a..Len(packed) :
        /\ \A k \in a..b :
              /\ Len(packed[k].lines)
                    <= Max(1, (HEIGHT_SAFETY * box_height_px) \div (100 * line_height_px))
              /\ packed[k].flags = [l \in 1..Len(packed[k].lines) |-> l = 1]
              /\ UsedHeight(packed[k]) = 100 * Len(packed[k].lines) * line_height_px
        /\ PageLines(packed, a, b) = ws[i]
        /\ PageLines(packed, 1, a - 1) = Concat(SubSeq(ws, 1, i - 1))

\* the same of unit i of split_by_lines, given the wrapped lines ws of
\* every unit
VerseHardSplit(ws, i) ==
    \E a \in 1..Len(slide_units) : \E b \in a..Len(slide_units) :
        /\ \A k \in a..b : Len(slide_units[k]) = 1 /\ Len(slide_units[k][1]) <= max_lines
        /\ Concat([k \in 1..(b - a + 1) |-> slide_units[a + k - 1][1]]) = ws[i]
        /\ Concat([k \in 1..(a - 1) |-> FlattenUnits(slide_units[k])])
              = Concat(SubSeq(units, 1, i - 1))

UnitWraps == [i \in 1..Len(units) |-> wrap_text_to_lines(units[i], max_line_chars)]

AllLyricHardSplits(ws) ==
    \A i \in 1..Len(ws) :
        100 * Len(ws[i]) * line_height_px > HEIGHT_SAFETY * box_height_px
            => LyricHardSplit(ws, i)

AllVerseHardSplits(ws) ==
    \A i \in 1..Len(ws) : Len(ws[i]) > max_lines => VerseHardSplit(ws, i)

\* C8: a unit taller than an empty page is emitted, after the current page
\* is closed, on consecutive fresh pages of at most
\* max(1, floor(budget / line height)) lines (max_lines in split_by_lines),
\* with no line of another unit and no gap among them.
C8_HardSplit ==
    /\ pc = "packed" => AllLyricHardSplits(LyricWraps)
    /\ pc = "v_packed" => AllVerseHardSplits(UnitWraps)

\* a lyric of three lines on a page of two, after a page that was open
C8_Witness ==
    /\ pc = "packed"
    /\ \E i \in 2..Len(lyric_lines) :
          /\ Len(LyricWrap(i)) = 3
          /\ Max(1, (HEIGHT_SAFETY * box_height_px) \div (100 * line_height_px)) = 2
          /\ Len(LyricWrap(i - 1)) = 1

\* the units of the scenario: five lyrics of one display line each, on a
\* page that holds four of them with their gaps and not five
FiveUnitsOnAPageOfFour ==
    /\ Len(NonBlank(lyric_lines)) = 5
    /\ \A i \in 1..Len(lyric_lines) : Len(LyricWrap(i)) <= 1
    /\ 400 * line_height_px + 3 * GapPx(line_height_px, lyric_gap_em)
          <= HEIGHT_SAFETY * box_height_px
    /\ 500 * line_height_px + 4 * GapPx(line_height_px, lyric_gap_em)
          > HEIGHT_SAFETY * box_height_px

UnitPage(us) == [lines |-> us, flags |-> [k \in 1..Len(us) |-> TRUE]]

ScenarioUnits == Concat([i \in 1..Len(lyric_lines) |-> LyricWrap(i)])

\* C9: five one-line units on a page that holds four: the packer yields
\* [[u1,u2,u3,u4],[u5]], the rebalancer then [[u1,u2,u3],[u4,u5]].
C9_FiveUnitsScenario ==
    (pc \in {"packed", "rebalanced"} /\ FiveUnitsOnAPageOfFour) =>
        /\ Pages(packed) = <<UnitPage(SubSeq(ScenarioUnits, 1, 4)),
                             UnitPage(SubSeq(ScenarioUnits, 5, 5))>>
        /\ pc = "rebalanced" =>
              out = <<UnitPage(SubSeq(ScenarioUnits, 1, 3)),
                      UnitPage(SubSeq(ScenarioUnits, 4, 5))>>

C9_Witness == pc = "rebalanced" /\ FiveUnitsOnAPageOfFour /\ out # before

\* C10: the wrapper returns no display line for a blank line; the packer
\* packs a list as it packs the list without its blank lines, a list of
\* blank lines into no page; split_by_lines returns no page for a blank
\* text.
C10_BlankIsNoOp ==
    /\ (pc = "w_wrapped" /\ IsBlank(line)) => wrapped = <<>>
    /\ pc = "packed" =>
          /\ packed = _pack_lyrics_into_slides_by_height(
                          NonBlank(lyric_lines), font, box_width_px, box_height_px,
                          line_height_px, lyric_gap_em, dbg)
          /\ NonBlank(lyric_lines) = <<>> => packed = <<>>
    /\ (pc = "v_returned" /\ Strip(text) = "") => slides = <<>>

\* a blank line between two lyrics that share a page
C10_Witness ==
    /\ pc = "packed"
    /\ \E i \in 2..(Len(lyric_lines) - 1) :
          /\ IsBlank(lyric_lines[i])
          /\ ~IsBlank(lyric_lines[i - 1])
          /\ ~IsBlank(lyric_lines[i + 1])
          /\ Len(packed) = 1

\* the (display line, flag) pairs of the lyrics when a line is flagged
\* exactly if it is the first display line of its lyric
FirstLinePairs(ws) ==
    Concat([i \in 1..Len(ws) |-> [l \in 1..Len(ws[i]) |-> <<ws[i][l], l = 1>>]])

TrueFlags(pages) ==
    Len(SelectSeq(PagePairs(pages), LAMBDA pr : pr[2]))

\* C11: on the pages of the packer and of the rebalancer a display line is
\* flagged as a unit start exactly if it is the first display line of the
\* lyric it was wrapped from, so the flags set are as many as the
\* non-blank input lines, a hard-split unit included.
C11_FlagsMarkFirstLines ==
    /\ pc = "packed" =>
          /\ PagePairs(Pages(packed)) = FirstLinePairs(LyricWraps)
          /\ TrueFlags(Pages(packed)) = Len(NonBlank(lyric_lines))
    /\ pc = "rebalanced" =>
          /\ PagePairs(out) = FirstLinePairs(LyricWraps)
          /\ TrueFlags(out) = Len(NonBlank(lyric_lines))

\* the final clause that the splitter does not leave as a unit of its own
IsShortTrailer(clause) ==
    Len(clause) <= 2
    \/ Cardinality({k \in 1..Len(Join(clause)) : Chr(Join(clause), k) \in AlnumChars}) <= 8

\* C12: when the text splits into two clauses or more and the final clause
\* has at most 2 words or at most 8 alphanumeric characters, the final
\* clause is appended to the clause before it; 'For God so loved the
\* world, that he gave his only begotten Son: Amen.' gives the two units
\* 'For God so loved the world,' and 'that he gave his only begotten Son:
\* Amen.'.
C12_TrailingMerge ==
    pc = "v_units" =>
        /\ (Len(clauses) >= 2 /\ IsShortTrailer(clauses[Len(clauses)])) =>
              units = SubSeq(clauses, 1, Len(clauses) - 2)
                      \o <<clauses[Len(clauses) - 1] \o clauses[Len(clauses)]>>
        /\ text \in ScenarioTexts =>
              [k \in 1..Len(units) |-> Join(units[k])]
                  = <<"For God so loved the world,",
                      "that he gave his only begotten Son: Amen.">>

\* the scenario text, its three clauses merged into two units
C12_Witness ==
    /\ pc = "v_units"
    /\ text \in ScenarioTexts
    /\ Len(clauses) = 3
    /\ Len(units) = 2

BoundaryMarks == {".", "!", "?", ";", ":", ","}

\* C13: the clauses joined by single spaces are the normalised text; every
\* clause but the last ends with a boundary mark; a text without a
\* boundary is one clause.
C13_ClausePartition ==
    pc = "v_units" =>
        /\ \A k \in 1..Len(clauses) : clauses[k] # <<>>
        /\ Join([k \in 1..Len(clauses) |-> Join(clauses[k])]) = Join(Split(text))
        /\ \A k \in 1..(Len(clauses) - 1) :
              LastChar(clauses[k][Len(clauses[k])]) \in BoundaryMarks
        /\ (\A w \in 1..(Len(Split(text)) - 1) :
               LastChar(Split(text)[w]) \notin BoundaryMarks) => Len(clauses) = 1

\* a text of several clauses, and one without a boundary
C13_Witness ==
    /\ pc = "v_units"
    /\ Len(clauses) >= 3
    /\ \E k \in 1..Len(clauses) : Len(clauses[k]) >= 4

\* the width limit lets through lines of up to n characters of a font that
\* charges every character alike
LimitInChars(n) ==
    /\ font.adv = font.thin
    /\ 100 * n * font.adv <= WIDTH_SAFETY * box_width_px
    /\ 100 * (n + 1) * font.adv > WIDTH_SAFETY * box_width_px

\* C14: at a limit of 20 characters a line, 'Amazing grace, how sweet the
\* sound' wraps to 'Amazing grace, how' and 'sweet the sound'.
C14_AmazingGrace ==
    (/\ pc = "w_wrapped"
     /\ line = "Amazing grace, how sweet the sound"
     /\ LimitInChars(20))
        => wrapped = <<"Amazing grace, how", "sweet the sound">>

C14_Witness ==
    /\ pc = "w_wrapped"
    /\ line = "Amazing grace, how sweet the sound"
    /\ LimitInChars(20)
    /\ Len(wrapped) = 2

\* the display lines as the greedy loop leaves them, before the
\* anti-orphan step
GreedyLines == WrapFrom(Split(Strip(line)), font, box_width_px, 1, <<>>, dbg)

\* the last two of the lines g after one trailing word of the
\* second-to-last line has moved to the front of the last line
OrphanJoined(g) ==
    LET n == Len(g)
        prev_words == Split(g[n - 1])
    IN  [g EXCEPT ![n - 1] = Join(SubSeq(prev_words, 1, Len(prev_words) - 1)),
                  ![n] = prev_words[Len(prev_words)] \o " " \o g[n]]

\* the last line is a single word of at most 4 characters, the line before
\* it has 3 words or more, and both lines fit after the move
OrphanCase(g) ==
    /\ Len(g) >= 2
    /\ Len(Split(g[Len(g)])) = 1
    /\ Len(g[Len(g)]) <= 4
    /\ Len(Split(g[Len(g) - 1])) >= 3
    /\ \A k \in {Len(g) - 1, Len(g)} : FitsWidth(font, OrphanJoined(g)[k], box_width_px, NoRecorder)

\* C15: the wrapper moves one trailing word of the second-to-last line to
\* the last line exactly when the last line is a single word of at most 4
\* characters, the line before has at least 3 words and both lines fit
\* afterwards; otherwise the lines are those of the greedy wrap.
C15_OrphanAvoidance ==
    (pc = "w_wrapped" /\ ~IsBlank(line)) =>
        wrapped = IF OrphanCase(GreedyLines) THEN OrphanJoined(GreedyLines) ELSE GreedyLines

\* the display line ends with a connector word
EndsWeak(display_line) ==
    LET parts == Split(display_line)
    IN  Len(parts) >= 2 /\ Lower(parts[Len(parts)]) \in _SMALL_WORDS

\* C16: in the wrapper's output no display line that is followed by another
\* display line and has two or more words ends with a connector word.
C16_NoWeakEnding ==
    pc = "w_wrapped" =>
        \A k \in 1..(Len(wrapped) - 1) : ~EndsWeak(wrapped[k])

\* the last page of the returned pages is tiny and has a predecessor
TinyTail ==
    /\ Len(slides) >= 2
    /\ _is_tiny(slides[Len(slides)], max_line_chars)

\* the last two pages re-wrapped as one page
LastTwoMerged ==
    wrap_text_to_lines(WordsOf(slides[Len(slides) - 1]) \o WordsOf(slides[Len(slides)]),
                       max_line_chars)

\* C17: in the pages split_by_lines returns, a tiny final page with a
\* predecessor cannot be merged into it: the two pages re-wrapped together
\* take more than max_lines lines.
C17_TinyTailMerged ==
    (pc = "v_returned" /\ TinyTail) => ~_fits_wrapped(LastTwoMerged, max_lines)

\* C18: once the head-polish loop has finished, one more pass over the
\* pages commits no transfer: no pair of adjacent pages remains where the
\* first is a single line, the second has two lines or more, and moving the
\* second's first line up leaves both within max_lines and the first no
\* longer a single line.
C18_HeadPolishIdempotent ==
    pc = "v_polished" =>
        \A i \in 1..(Len(slides) - 1) :
            PolishAt(slides, i, max_line_chars, max_lines) = slides

\* slide_units su after the first k units of page 2 went to the end of page 1
Donated(su, k) ==
    [su EXCEPT ![1] = su[1] \o SubSeq(su[2], 1, k),
               ![2] = SubSeq(su[2], k + 1, Len(su[2]))]

\* slide_units su after the last k units of page j - 1 went to the front of
\* page j
MovedBack(su, j, k) ==
    LET prev == su[j - 1]
    IN  [su EXCEPT ![j - 1] = SubSeq(prev, 1, Len(prev) - k),
                   ![j] = SubSeq(prev, Len(prev) - k + 1, Len(prev)) \o su[j]]

\* pages a and a + 1 of su both render within max_lines
PairFits(su, a) ==
    BothFit(_render(su[a], max_line_chars), _render(su[a + 1], max_line_chars), max_lines)

PageTiny(su, a) == _is_tiny(_render(su[a], max_line_chars), max_line_chars)

\* the pages before head cleanup
HeadPacked ==
    [su |-> PackSlideUnits(units, max_line_chars, max_lines),
     sl |-> RenderAll(PackSlideUnits(units, max_line_chars, max_lines), max_line_chars)]

\* the same, page 2 split into its clauses where the code does so
HeadStart == ResplitSecond(HeadPacked, max_line_chars)

\* head cleanup takes the unit-donation branch
HeadDonates(r) ==
    /\ Len(r.su) >= 2
    /\ _is_tiny(r.sl[1], max_line_chars)
    /\ ~FirstFixed(r.su[1]) /\ ~FirstFixed(r.su[2])

\* the tail loop at page jx takes the unit-moving branch
TailMoves ==
    /\ pc = "v_tail" /\ jx > 1
    /\ _is_tiny(slides[jx], max_line_chars)
    /\ ~_fits_plain(FlattenUnits(slide_units[jx - 1]) \o FlattenUnits(slide_units[jx]),
                    max_line_chars, max_lines)
    /\ ~FirstFixed(slide_units[jx - 1]) /\ ~FirstFixed(slide_units[jx])

\* k donations were kept, starting from slide_units su0 and pages sl0:
\* every kept donation left both pages within max_lines, the loop went on
\* only while the receiving page recv was tiny, and it stopped because
\* nothing was left to give, the receiving page was no longer tiny, or
\* donation k + 1 overflowed and was undone.
KeptDonations(su0, sl0, after, a, recv, avail, k) ==
    /\ slide_units' = after[k]
    /\ slides' = IF k = 0 THEN sl0 ELSE RenderAll(after[k], max_line_chars)
    /\ \A m \in 1..k : PairFits(after[m], a)
    /\ \A m \in 1..(k - 1) : PageTiny(after[m], recv)
    /\ \/ k = avail
       \/ k >= 1 /\ ~PageTiny(after[k], recv)
       \/ k < avail /\ ~PairFits(after[k + 1], a)

\* a step of head cleanup through its donation loop
HeadDonationStep ==
    (pc = "v_packed" /\ pc' = "v_cleaned" /\ HeadDonates(HeadPacked)) =>
        LET avail == Len(HeadStart.su[2]) - 1
            after == [m \in 0..(avail + 1) |-> Donated(HeadStart.su, m)]
        IN  \E k \in 0..avail :
                KeptDonations(HeadStart.su, HeadStart.sl, after, 1, 1, avail, k)

\* an iteration of the tail loop through its moving loop
TailMovingStep ==
    (TailMoves /\ pc' = "v_tail") =>
        LET left == Len(slide_units[jx - 1]) - 1
            moved == [m \in 0..(left + 1) |-> MovedBack(slide_units, jx, m)]
        IN  \E k \in 0..left :
                KeptDonations(slide_units, slides, moved, jx - 1, jx, left, k)

\* C19: in the donation loop of head cleanup and in the moving loop of the
\* tail repair a donation that makes either page exceed max_lines is
\* undone: clause lists and page texts are those before that donation, and
\* no further donation follows.
C19_ConservativeRepairs == [][HeadDonationStep /\ TailMovingStep]_vars

\* head cleanup tried a donation and undid it: the clause lists and the
\* pages are those before it
C19_Witness ==
    /\ pc = "v_cleaned"
    /\ HeadDonates(HeadPacked)
    /\ Len(HeadStart.su[2]) > 1
    /\ ~PairFits(Donated(HeadStart.su, 1), 1)
    /\ slide_units = HeadStart.su
    /\ slides = HeadStart.sl

\* C20: _build_measure_font never fails and returns a strictly positive
\* width, height and line height, for a zero or missing width or height,
\* a missing font size and a missing line spacing as well.
C20_GeometryUsable ==
    pc = "g_measured" =>
        /\ measured.raised = ""
        /\ measured.width_px > 0
        /\ measured.height_px > 0
        /\ measured.line_h > 0

\* the pages of a lyric run without a recorder
PlainPacked ==
    _pack_lyrics_into_slides_by_height(lyric_lines, font, box_width_px, box_height_px,
                                       line_height_px, lyric_gap_em, NoRecorder)

AfterBatches(sl, k) ==
    LET next_words == WordsOf(sl[2])
        n == k * OPENING_BORROW_TAKE
        head == wrap_text_to_lines(WordsOf(sl[1]) \o SubSeq(next_words, 1, n),
                                   max_line_chars)
        rest == wrap_text_to_lines(SubSeq(next_words, n + 1, Len(next_words)),
                                   max_line_chars)
    IN  IF rest = <<>> THEN <<head>> \o SubSeq(sl, 3, Len(sl))
        ELSE [sl EXCEPT ![1] = head, ![2] = rest]

\* C22: a borrow the final opening-clause repair commits after k batches
\* leaves on page 1 the old page 1 followed by the words of batches 1..k in
\* their order, and on page 2 exactly the remaining words.
C22_BorrowKeepsWords ==
    [][(pc = "v_tail" /\ pc' = "v_returned" /\ slides' # slides) =>
          \E k \in 1..OPENING_BORROW_TRIES :
              /\ k * OPENING_BORROW_TAKE <= Len(WordsOf(slides[2]))
              /\ slides' = AfterBatches(slides, k)]_vars

\* the repair passes of split_by_lines have run at least once
Repaired == pc \in {"v_cleaned", "v_polished", "v_tail", "v_returned"}

\* C23: after every repair pass the rendered pages and the per-page clause
\* lists have the same length, and the words of rendered page i are the
\* words of clause list i.
C23_PagesMatchClauseLists ==
    Repaired =>
        /\ Len(slides) = Len(slide_units)
        /\ \A i \in 1..Len(slides) :
               WordsOf(slides[i]) = FlattenUnits(slide_units[i])

\* the number of non-empty lines of a rendered page
_nonempty_lines(block) == Len(SelectSeq(block, LAMBDA ln : ln # <<>>))

\* C24: every page split_by_lines returns has at least one and at most
\* max_lines non-empty lines.
C24_PageHeight ==
    pc = "v_returned" =>
        \A i \in 1..Len(slides) :
            /\ _nonempty_lines(slides[i]) >= 1
            /\ _nonempty_lines(slides[i]) <= max_lines

C24_Witness ==
    /\ pc = "v_returned"
    /\ Len(slides) >= 3
    /\ max_lines = 2
    /\ \E i \in 1..Len(slides) : _nonempty_lines(slides[i]) = max_lines
    /\ slides # RenderAll(PackSlideUnits(VerseUnits(Split(text)), max_line_chars, max_lines),
                          max_line_chars)

\* the display lines of the lyrics that wrap to at least one line
PlacedUnits == SelectSeq(LyricWraps, LAMBDA w : w # <<>>)

\* page k of the packer's output ends where unit u begins
BreakBefore(u, k) ==
    Len(PageLines(packed, 1, k)) = Len(Concat(SubSeq(PlacedUnits, 1, u - 1)))

\* the height of page p with unit ws appended after one inter-unit gap
HeightWith(p, ws) ==
    UsedHeight(p) + GapPx(line_height_px, lyric_gap_em) + 100 * Len(ws) * line_height_px

\* C25: the lyric packer starts a new page before a unit only if the unit,
\* appended with one gap to the page holding the last display line of the
\* preceding unit, would exceed the height budget.
C25_GreedyBreak ==
    pc = "packed" =>
        \A u \in 2..Len(PlacedUnits) : \A k \in 1..(Len(packed) - 1) :
            BreakBefore(u, k) =>
                HeightWith(packed[k], PlacedUnits[u]) > HEIGHT_SAFETY * box_height_px

\* a unit of display lines ws is no taller than an empty page
FitsEmptyPage(ws) ==
    100 * Len(ws) * line_height_px <= HEIGHT_SAFETY * box_height_px

\* the display lines of unit u of units lie, in order and next to each
\* other, on one page of pages
OnOnePage(pages, units_, u) ==
    LET first == Len(Concat(SubSeq(units_, 1, u - 1))) + 1
        last == first + Len(units_[u]) - 1
    IN  \E k \in 1..Len(pages) :
            /\ Len(PageLines(pages, 1, k - 1)) < first
            /\ last <= Len(PageLines(pages, 1, k))
            /\ SubSeq(PageLines(pages, 1, Len(pages)), first, last) = units_[u]

UnitsWhole(pages) ==
    \A placed \in {PlacedUnits} : \A u \in 1..Len(placed) :
        FitsEmptyPage(placed[u]) => OnOnePage(pages, placed, u)

\* C26: after packing and after rebalancing, the display lines of every
\* unit that fits an empty page lie contiguously on a single page.
C26_UnitAtomicity ==
    /\ pc = "packed" => UnitsWhole(Pages(packed))
    /\ pc \in {"rebalanced", "rebalanced_again"} => UnitsWhole(out)

\* the rebalancer moved a unit while a unit of several display lines was
\* on the pages
C26_Witness ==
    /\ pc = "rebalanced"
    /\ out # before
    /\ \E placed \in {PlacedUnits} : \E u \in 1..Len(placed) :
           Len(placed[u]) >= 2 /\ FitsEmptyPage(placed[u])

\* C27: when the text has two clauses or more and the final clause is short
\* (at most 2 words or at most 8 alphanumeric characters), no page that
\* split_by_lines returns consists of that final clause alone.
C27_TrailerNotAlone ==
    (pc = "v_returned" /\ Len(clauses) >= 2 /\ IsShortTrailer(clauses[Len(clauses)])) =>
        \A i \in 1..Len(slides) : WordsOf(slides[i]) # clauses[Len(clauses)]

\* the pages and the index with which the tail loop of split_by_lines starts
TailStart ==
    LET su0 == PackSlideUnits(units, max_line_chars, max_lines)
        cleaned == HeadCleanupOf([su |-> su0, sl |-> RenderAll(su0, max_line_chars)],
                                 max_line_chars, max_lines)
        polished == [su |-> cleaned.su,
                     sl |-> HeadPolishOf(cleaned.sl, max_line_chars, max_lines)]
    IN  WordBorrowOf(polished, max_line_chars, max_lines)

\* the clauses on the pages su
UnitCount(su) == SumLen(su)

\* the sum, over the clauses, of the number of the page that holds them
UnitPlaces(su) == SumLen([k \in 1..Len(su) |-> [n \in 1..(k * Len(su[k])) |-> n]])

\* more than any place sum or page index of a text of this many words
RankBase == Len(Split(text)) * Len(Split(text)) + 1

\* a merge lowers the number of clauses; a move keeps it and shifts a clause
\* to a later page; otherwise the index goes down
TailRank(su, j) ==
    UnitCount(su) * RankBase * RankBase + (RankBase - UnitPlaces(su)) * RankBase + j

\* C28: the backward tail-repair loop of split_by_lines terminates: a rank
\* that is a natural number gets strictly smaller with every iteration,
\* also with those that reset the index to the last page after a merge or
\* a move.
C28_TailLoopTerminates ==
    pc = "v_tail" =>
        /\ jx <= Len(slide_units)
        /\ UnitPlaces(slide_units) < RankBase
        /\ jx > 1 =>
              \A t \in {TailIteration([su |-> slide_units, sl |-> slides], jx,
                                      max_line_chars, max_lines)} :
                  /\ t.jx \in 0..Len(t.su)
                  /\ UnitPlaces(t.su) < RankBase
                  /\ TailRank(t.su, t.jx) < TailRank(slide_units, jx)

\* the loop is back at the last page after a merge or a move changed the
\* clause lists, with pages still to visit
C28_Witness ==
    /\ pc = "v_tail"
    /\ jx = Len(slide_units)
    /\ jx > 1
    /\ slide_units # TailStart.su

\* a display line of the lyric wrapper is within the width limit or is one
\* word
NarrowOrOneWord(ln) ==
    FitsWidth(font, ln, box_width_px, dbg) \/ Len(Split(ln)) = 1

\* a line of wrap_text_to_lines is within max_line_chars or is one word
ShortOrOneWord(ln) == LineChars(ln) <= max_line_chars \/ Len(ln) = 1

\* C29: a line exceeds the width limit only when it is a single word: every
\* display line of the lyric wrapper, on its own and on the packer's pages,
\* and every line of every page of split_by_lines.
C29_WideOnlyIfOneWord ==
    /\ pc = "w_wrapped" => \A k \in 1..Len(wrapped) : NarrowOrOneWord(wrapped[k])
    /\ pc = "packed" =>
          \A i \in 1..Len(packed) : \A l \in 1..Len(packed[i].lines) :
              NarrowOrOneWord(packed[i].lines[l])
    /\ \A i \in 1..Len(slides) : \A l \in 1..Len(slides[i]) :
          ShortOrOneWord(slides[i][l])

\* the wrapper returned a word wider than the limit on a line of its own,
\* next to lines of several words
C29_Witness ==
    /\ pc = "w_wrapped"
    /\ \E k \in 1..Len(wrapped) : ~FitsWidth(font, wrapped[k], box_width_px, dbg)
    /\ \E k \in 1..Len(wrapped) : Len(Split(wrapped[k])) >= 2

\* C30: for the single-space-normalized verse text t that build_verse_deck
\* protects, restore_bracket_spaces(protect_bracket_spans(t)) = t, the
\* whitespace inside every bracket span included.
C30_ProtectRoundTrip ==
    (pc = "v_call" /\ caller = "build_verse_deck") =>
        restore_bracket_spaces(text) = Join(Split(verse_text))

====
